---- MODULE Spec2Model ----
(***************************************************************************)
(* Model of the IONOS MCP server (src/src/index.ts): the tool catalog      *)
(* returned by the ListTools handler, the CallTool dispatcher with its     *)
(* try/catch error normalisation, and the nine handlers that each await    *)
(* one axios call.  A tool invocation is modelled in two steps, as the     *)
(* runtime executes it: the synchronous part of the handler up to its      *)
(* await (CallTool), and the continuation that runs when the remote call   *)
(* settles (RemoteSettle).  Several invocations may be awaiting at once.   *)
(***************************************************************************)
EXTENDS Integers, Sequences, FiniteSets, TLC

(* ---------------------------------------------------------------------- *)
(* Bounds of the model                                                    *)
(* ---------------------------------------------------------------------- *)
\* invocations received in a behaviour of Spec
MaxCalls == 1
\* invocations received (and possibly awaiting together) in SpecConc
MaxInFlight == 2
\* discovery responses recorded
MaxDiscover == 2

(* ---------------------------------------------------------------------- *)
(* JavaScript values                                                      *)
(* ---------------------------------------------------------------------- *)
Undefined == [t |-> "undefined"]
Str(s) == [t |-> "string", s |-> s]
Num(n) == [t |-> "number", n |-> n]
Bool(b) == [t |-> "boolean", b |-> b]
\* an array holds its elements in order
Arr(a) == [t |-> "array", a |-> a]
\* an object holds its own properties, in insertion order, as <<key, value>>
Obj(o) == [t |-> "object", o |-> o]

\* v is null or undefined
Nullish(v) == v.t \in {"undefined", "null"}

HasOwn(v, k) == v.t = "object" /\ \E i \in 1..Len(v.o) : v.o[i][1] = k

\* v.k for a value v that is not nullish (reading a property of a nullish
\* value throws a TypeError instead, see the handlers)
Get(v, k) ==
    IF HasOwn(v, k)
    THEN v.o[CHOOSE i \in 1..Len(v.o) : v.o[i][1] = k][2]
    ELSE Undefined

\* v?.k
OptGet(v, k) == IF Nullish(v) THEN Undefined ELSE Get(v, k)

\* ToBoolean(v), as used by the || operator
Truthy(v) ==
    CASE v.t = "undefined" -> FALSE
      [] v.t = "null" -> FALSE
      [] v.t = "string" -> v.s # ""
      [] v.t = "number" -> v.n # 0
      [] v.t = "boolean" -> v.b
      [] OTHER -> TRUE

\* a || b
OrElse(a, b) == IF Truthy(a) THEN a ELSE b

RECURSIVE JoinStr(_, _)
\* the strings of ss joined with sep
JoinStr(ss, sep) ==
    IF Len(ss) = 0 THEN ""
    ELSE IF Len(ss) = 1 THEN ss[1]
    ELSE ss[1] \o sep \o JoinStr(Tail(ss), sep)

RECURSIVE ToStr(_)
\* ToString(v), as applied by a template literal `${v}`
ToStr(v) ==
    CASE v.t = "undefined" -> "undefined"
      [] v.t = "null" -> "null"
      [] v.t = "string" -> v.s
      [] v.t = "number" -> ToString(v.n)
      [] v.t = "boolean" -> (IF v.b THEN "true" ELSE "false")
      [] v.t = "array" ->
            JoinStr([i \in 1..Len(v.a) |->
                        IF Nullish(v.a[i]) THEN "" ELSE ToStr(v.a[i])], ",")
      [] OTHER -> "[object Object]"

(* ---------------------------------------------------------------------- *)
(* JSON.stringify(value, null, 2)                                         *)
(* ---------------------------------------------------------------------- *)
RECURSIVE Spaces(_)
Spaces(n) == IF n = 0 THEN "" ELSE " " \o Spaces(n - 1)

RECURSIVE EscapeFrom(_, _)
\* the JSON escape of the characters of s from position i on
EscapeFrom(s, i) ==
    IF i > Len(s) THEN ""
    ELSE LET c == SubSeq(s, i, i)
             e == CASE c = "\"" -> "\\\""
                    [] c = "\\" -> "\\\\"
                    [] c = "\n" -> "\\n"
                    [] OTHER -> c
         IN  e \o EscapeFrom(s, i + 1)

\* a JSON string literal
Quote(s) == "\"" \o EscapeFrom(s, 1) \o "\""

RECURSIVE Serialize(_, _)
\* the JSON text of v, whose enclosing indentation is ind spaces; every
\* nesting level indents by two more
Serialize(v, ind) ==
    CASE v.t = "string" -> Quote(v.s)
      [] v.t = "number" -> ToString(v.n)
      [] v.t = "boolean" -> (IF v.b THEN "true" ELSE "false")
      [] v.t = "array" ->
            IF Len(v.a) = 0 THEN "[]"
            ELSE "[\n"
                 \o JoinStr([i \in 1..Len(v.a) |->
                               Spaces(ind + 2)
                               \o (IF v.a[i].t = "undefined" THEN "null"
                                   ELSE Serialize(v.a[i], ind + 2))], ",\n")
                 \o "\n" \o Spaces(ind) \o "]"
      [] v.t = "object" ->
            LET kept == SelectSeq(v.o, LAMBDA p : p[2].t # "undefined")
            IN  IF Len(kept) = 0 THEN "{}"
                ELSE "{\n"
                     \o JoinStr([i \in 1..Len(kept) |->
                                   Spaces(ind + 2) \o Quote(kept[i][1]) \o ": "
                                   \o Serialize(kept[i][2], ind + 2)], ",\n")
                     \o "\n" \o Spaces(ind) \o "}"
      [] OTHER -> "null"

JSONstringify(v) == Serialize(v, 0)

(* ---------------------------------------------------------------------- *)
(* Remote service clients                                                 *)
(* ---------------------------------------------------------------------- *)
dnsApiClient == [baseURL |-> "https://api.hosting.ionos.com/dns"]
domainsApiClient == [baseURL |-> "https://api.hosting.ionos.com/domains"]
sslApiClient == [baseURL |-> "https://api.hosting.ionos.com/ssl"]

\* the outbound request made by client.get/patch/post/delete(url, body)
Request(client, method, url, body) ==
    [baseURL |-> client.baseURL, method |-> method, url |-> url, body |-> body]

(* ---------------------------------------------------------------------- *)
(* Errors and the steps of an async handler                               *)
(* ---------------------------------------------------------------------- *)
\* new McpError(code, message); message is the constructor's argument
McpError(code, message) ==
    [name |-> "McpError", isAxiosError |-> FALSE, code |-> code,
     message |-> message, response |-> Undefined]

\* the TypeError raised by reading property k of a nullish value v
TypeError(v, k) ==
    [name |-> "TypeError", isAxiosError |-> FALSE, code |-> "none",
     message |-> "Cannot read properties of " \o ToStr(v)
                 \o " (reading '" \o k \o "')",
     response |-> Undefined]

\* the error an axios call rejects with; response is undefined when no
\* HTTP response was received
AxiosError(message, response) ==
    [name |-> "AxiosError", isAxiosError |-> TRUE, code |-> "none",
     message |-> message, response |-> response]

Throw(e) == [kind |-> "throw", error |-> e]
Return(v) == [kind |-> "return", value |-> v]
Await(req) == [kind |-> "await", request |-> req]

\* how an awaited remote call settles
Fulfilled(status, data) ==
    [kind |-> "fulfilled", value |-> [status |-> status, data |-> data]]
Rejected(e) == [kind |-> "rejected", reason |-> e]

(* ---------------------------------------------------------------------- *)
(* Handlers, up to their await                                            *)
(* ---------------------------------------------------------------------- *)
listDnsZones == Await(Request(dnsApiClient, "GET", "/v1/zones", Undefined))

getDnsZone(params) ==
    IF Nullish(params) THEN Throw(TypeError(params, "zoneId"))
    ELSE Await(Request(dnsApiClient, "GET",
                       "/v1/zones/" \o ToStr(Get(params, "zoneId")),
                       Undefined))

updateDnsZone(params) ==
    IF Nullish(params) THEN Throw(TypeError(params, "zoneId"))
    ELSE Await(Request(dnsApiClient, "PATCH",
                       "/v1/zones/" \o ToStr(Get(params, "zoneId")),
                       Obj(<< <<"records", Get(params, "records")>> >>)))

listDomains ==
    Await(Request(domainsApiClient, "GET", "/v1/domainitems", Undefined))

getDomainDetails(params) ==
    IF Nullish(params) THEN Throw(TypeError(params, "domainId"))
    ELSE Await(Request(domainsApiClient, "GET",
                       "/v1/domainitems/" \o ToStr(Get(params, "domainId")),
                       Undefined))

listCertificates ==
    Await(Request(sslApiClient, "GET", "/v1/certificates", Undefined))

\* variant: a missing id is rejected locally, without a remote call
getCertificateDetailsValidated(params) ==
    IF Nullish(params) THEN Throw(TypeError(params, "certificateId"))
    ELSE IF ~HasOwn(params, "certificateId")
    THEN Return([content |-> << [type |-> "text",
                                 text |-> "certificateId is required"] >>,
                 isError |-> TRUE])
    ELSE Await(Request(sslApiClient, "GET",
                       "/v1/certificates/"
                           \o ToStr(Get(params, "certificateId")),
                       Undefined))

getCertificateDetails(params) ==
    IF Nullish(params) THEN Throw(TypeError(params, "certificateId"))
    ELSE Await(Request(sslApiClient, "GET",
                       "/v1/certificates/"
                           \o ToStr(Get(params, "certificateId")),
                       Undefined))

\* variant: the list is passed on without a default
DefaultSansNone(params) == Get(params, "subjectAlternativeNames")

\* params.subjectAlternativeNames || []
DefaultSans(params) == OrElse(Get(params, "subjectAlternativeNames"), Arr(<<>>))

createCertificate(params) ==
    IF Nullish(params) THEN Throw(TypeError(params, "domainName"))
    ELSE Await(Request(sslApiClient, "POST", "/v1/certificates",
                       Obj(<< <<"domainName", Get(params, "domainName")>>,
                              <<"subjectAlternativeNames",
                                DefaultSans(params)>> >>)))

deleteCertificate(params) ==
    IF Nullish(params) THEN Throw(TypeError(params, "certificateId"))
    ELSE Await(Request(sslApiClient, "DELETE",
                       "/v1/certificates/"
                           \o ToStr(Get(params, "certificateId")),
                       Undefined))

\* variant: the whole response is serialised, not its body
ResultTextWhole(response) ==
    JSONstringify(Obj(<< <<"status", Num(response.status)>>,
                         <<"data", response.data>> >>))

\* the text of a handler's result: JSON.stringify(response.data, null, 2)
ResultText(response) == JSONstringify(response.data)

\* the rest of every handler once its awaited call has settled: a rejection
\* is thrown out of the handler, a response is wrapped in the envelope
Resume(settled) ==
    IF settled.kind = "rejected" THEN Throw(settled.reason)
    ELSE Return([content |-> << [type |-> "text",
                                 text |-> ResultText(settled.value)] >>])

(* ---------------------------------------------------------------------- *)
(* The CallTool request handler                                           *)
(* ---------------------------------------------------------------------- *)
\* variant: one label is misspelt
CaseLabelsTypo ==
    << "list_dns_zones", "get_dns_zone", "update_dns_zone",
       "list_domains", "get_domain_details",
       "list_certificates", "get_certificate_details",
       "create_certificate", "delete_certficate" >>

\* the case labels of the switch, in order
CaseLabels ==
    << "list_dns_zones", "get_dns_zone", "update_dns_zone",
       "list_domains", "get_domain_details",
       "list_certificates", "get_certificate_details",
       "create_certificate", "delete_certificate" >>

\* variant: the default branch falls into the first handler
DispatchNoDefault(name, arguments) ==
    CASE name = CaseLabels[2] -> getDnsZone(arguments)
      [] name = CaseLabels[3] -> updateDnsZone(arguments)
      [] name = CaseLabels[4] -> listDomains
      [] name = CaseLabels[5] -> getDomainDetails(arguments)
      [] name = CaseLabels[6] -> listCertificates
      [] name = CaseLabels[7] -> getCertificateDetails(arguments)
      [] name = CaseLabels[8] -> createCertificate(arguments)
      [] name = CaseLabels[9] -> deleteCertificate(arguments)
      [] OTHER -> listDnsZones

\* the switch on request.params.name
Dispatch(name, arguments) ==
    CASE name = CaseLabels[1] -> listDnsZones
      [] name = CaseLabels[2] -> getDnsZone(arguments)
      [] name = CaseLabels[3] -> updateDnsZone(arguments)
      [] name = CaseLabels[4] -> listDomains
      [] name = CaseLabels[5] -> getDomainDetails(arguments)
      [] name = CaseLabels[6] -> listCertificates
      [] name = CaseLabels[7] -> getCertificateDetails(arguments)
      [] name = CaseLabels[8] -> createCertificate(arguments)
      [] name = CaseLabels[9] -> deleteCertificate(arguments)
      [] OTHER -> Throw(McpError("MethodNotFound", "Unknown tool: " \o name))

\* axios.isAxiosError(error)
isAxiosError(error) == error.isAxiosError

\* variant: the generic text is preferred to the body's message
ErrorMessageSwapped(error) ==
    OrElse(Str(error.message),
           OptGet(OptGet(error.response, "data"), "message"))

\* variant: no fallback to the generic text
ErrorMessageNoFallback(error) ==
    OptGet(OptGet(error.response, "data"), "message")

\* error.response?.data?.message || error.message
ErrorMessage(error) ==
    OrElse(OptGet(OptGet(error.response, "data"), "message"),
           Str(error.message))

\* the text of the error envelope
ErrorText(error) == "IONOS API error: " \o ToStr(ErrorMessage(error))

\* variant: every thrown error is turned into an envelope
CatchAny(step) ==
    IF step.kind = "throw"
    THEN Return([content |-> << [type |-> "text",
                                 text |-> ErrorText(step.error)] >>,
                 isError |-> TRUE])
    ELSE step

\* the catch block: what the handler's promise settles with when the try
\* block ended with step
Catch(step) ==
    IF step.kind = "throw" /\ isAxiosError(step.error)
    THEN Return([content |-> << [type |-> "text",
                                 text |-> ErrorText(step.error)] >>,
                 isError |-> TRUE])
    ELSE step

(* ---------------------------------------------------------------------- *)
(* The ListTools request handler                                          *)
(* ---------------------------------------------------------------------- *)
NoInput ==
    [type |-> "object", properties |-> << >>, additionalProperties |-> FALSE]

StringProp(name, description) ==
    [name |-> name, type |-> "string", description |-> description]

IdInput(name, description) ==
    [type |-> "object", properties |-> << StringProp(name, description) >>,
     required |-> << name >>, additionalProperties |-> FALSE]

RecordItems ==
    [type |-> "object",
     properties |-> << [name |-> "name", type |-> "string"],
                       [name |-> "type", type |-> "string"],
                       [name |-> "content", type |-> "string"],
                       [name |-> "ttl", type |-> "number"],
                       [name |-> "prio", type |-> "number"],
                       [name |-> "disabled", type |-> "boolean"] >>,
     required |-> << "name", "type", "content" >>]

Tool(name, description, inputSchema) ==
    [name |-> name, description |-> description, inputSchema |-> inputSchema]

\* the tools array of the discovery response
Tools ==
    << Tool("list_dns_zones", "List all DNS zones", NoInput),
       Tool("get_dns_zone", "Get details of a specific DNS zone",
            IdInput("zoneId", "ID of the DNS zone")),
       Tool("update_dns_zone", "Update a DNS zone with new records",
            [type |-> "object",
             properties |-> << StringProp("zoneId", "ID of the DNS zone"),
                               [name |-> "records", type |-> "array",
                                description |-> "Array of DNS records to update",
                                items |-> RecordItems] >>,
             required |-> << "zoneId", "records" >>,
             additionalProperties |-> FALSE]),
       Tool("list_domains", "List all domains", NoInput),
       Tool("get_domain_details", "Get details of a specific domain",
            IdInput("domainId", "ID of the domain")),
       Tool("list_certificates", "List all SSL certificates", NoInput),
       Tool("get_certificate_details",
            "Get details of a specific SSL certificate",
            IdInput("certificateId", "ID of the SSL certificate")),
       Tool("create_certificate", "Create a new SSL certificate",
            [type |-> "object",
             properties |-> << StringProp("domainName",
                                          "Domain name for the certificate"),
                               [name |-> "subjectAlternativeNames",
                                type |-> "array",
                                description |->
                                    "Additional domain names for the certificate",
                                items |-> [type |-> "string"]] >>,
             required |-> << "domainName" >>,
             additionalProperties |-> FALSE]),
       Tool("delete_certificate", "Unassign an SSL certificate",
            IdInput("certificateId", "ID of the SSL certificate")) >>

(* ---------------------------------------------------------------------- *)
(* Inputs: tool names, arguments and the ways a remote call settles       *)
(* ---------------------------------------------------------------------- *)
Range(f) == {f[i] : i \in DOMAIN f}

CatalogNames == {Tools[i].name : i \in DOMAIN Tools}

\* names no tool carries
UnknownNames == {"unknown_tool", "getDnsZone"}

Names == CatalogNames \cup Range(CaseLabels) \cup UnknownNames

ZoneArgs == Obj(<< <<"zoneId", Str("z1")>> >>)

ARecord ==
    Obj(<< <<"name", Str("www.example.com")>>, <<"type", Str("A")>>,
           <<"content", Str("192.0.2.1")>>, <<"ttl", Num(3600)>>,
           <<"disabled", Bool(FALSE)>> >>)

\* the argument values an invocation of name is tried with: none at all,
\* an empty object, and objects carrying the fields the tool declares
ArgsFor(name) ==
    {Undefined, Obj(<< >>)} \cup
    CASE name = "get_dns_zone" -> {ZoneArgs}
      [] name = "update_dns_zone" ->
            {Obj(<< <<"zoneId", Str("z1")>>,
                    <<"records", Arr(<< ARecord >>)>> >>)}
      [] name = "get_domain_details" -> {Obj(<< <<"domainId", Str("d1")>> >>)}
      [] name \in {"get_certificate_details", "delete_certificate"} ->
            {Obj(<< <<"certificateId", Str("c1")>> >>)}
      [] name = "create_certificate" ->
            {Obj(<< <<"domainName", Str("example.com")>> >>),
             Obj(<< <<"domainName", Str("example.com")>>,
                    <<"subjectAlternativeNames",
                      Arr(<< Str("www.example.com"),
                             Str("mail.example.com") >>)>> >>)}
      [] name \in UnknownNames -> {ZoneArgs}
      [] OTHER -> {}

ZoneBody ==
    Obj(<< <<"id", Str("z1")>>, <<"name", Str("example.com")>> >>)

\* an HTTP error response
ErrorResponse(status, data) ==
    Obj(<< <<"status", Num(status)>>, <<"data", data>> >>)

StatusMessage(status) == "Request failed with status code " \o ToString(status)

NotFound ==
    Rejected(AxiosError(StatusMessage(404),
        ErrorResponse(404, Obj(<< <<"code", Str("ZONE_NOT_FOUND")>>,
                                  <<"message", Str("Zone not found")>> >>))))

\* the rate limit's rejection: an error list, no message field in the body
RateLimited ==
    Rejected(AxiosError(StatusMessage(429),
        ErrorResponse(429, Arr(<< Obj(<< <<"code", Str("RATE_LIMIT_EXCEEDED")>>
                                      >>) >>))))

EmptyMessage ==
    Rejected(AxiosError(StatusMessage(500),
        ErrorResponse(500, Obj(<< <<"message", Str("")>> >>))))

NetworkError == Rejected(AxiosError("Network Error", Undefined))

Settlements ==
    { Fulfilled(200, ZoneBody),
      Fulfilled(200, Arr(<< Obj(<< <<"name", Str("say \"hi\"")>>,
                                   <<"records", Arr(<< ARecord >>)>>,
                                   <<"tags", Arr(<< >>)>> >>) >>)),
      Fulfilled(200, Str("")),
      NotFound, RateLimited, EmptyMessage, NetworkError }

\* the inputs of the concurrent specification
ConcNames ==
    {"list_domains", "get_dns_zone", "create_certificate", "unknown_tool"}

ConcArgsFor(name) ==
    {Undefined} \cup
    CASE name = "get_dns_zone" -> {ZoneArgs}
      [] name = "create_certificate" ->
            {Obj(<< <<"domainName", Str("example.com")>> >>)}
      [] OTHER -> {}

ConcSettlements == {Fulfilled(200, ZoneBody), NotFound, NetworkError}

(* ---------------------------------------------------------------------- *)
(* State                                                                  *)
(* ---------------------------------------------------------------------- *)
VARIABLES
    alive,      \* the process has not exited
    calls,      \* the invocations received, in order of arrival
    catalogs    \* the discovery responses returned, in order, each with
                \* whether an invocation had faulted before it

vars == << alive, calls, catalogs >>

Pending == [kind |-> "pending"]

\* variant: the response is kept in a field the invocations share, so a
\* continuation reads the settlement of the first call that settled
AwaitResultShared(i, settled) ==
    IF \E j \in 1..Len(calls) : j # i /\ calls[j].settled.kind # "pending"
    THEN calls[CHOOSE j \in 1..Len(calls) :
                    j # i /\ calls[j].settled.kind # "pending"].settled
    ELSE settled

\* the value the await of invocation i evaluates to (or throws) when its
\* remote call settles with settled: each continuation holds its own
\* response in a local
AwaitResult(i, settled) == settled

\* some invocation received so far has ended in a fault
SomeFault == \E i \in 1..Len(calls) : calls[i].step.kind = "throw"

Init ==
    /\ alive = TRUE
    /\ calls = << >>
    /\ catalogs = << >>

\* variant: the catalog shrinks with the invocations received
ListToolsResultDynamic ==
    [tools |-> SubSeq(Tools, 1, Len(Tools) - Len(calls))]

\* the discovery response
ListToolsResult == [tools |-> Tools]

\* a discovery request: the handler returns the tools literal
ListTools ==
    /\ alive
    /\ Len(catalogs) < MaxDiscover
    /\ catalogs' = Append(catalogs,
                          [afterFault |-> SomeFault, result |-> ListToolsResult])
    /\ UNCHANGED << alive, calls >>

\* an invocation request: the handler runs until its first await, and
\* through the catch block when it throws before awaiting
CallTool(name, arguments, max) ==
    /\ alive
    /\ Len(calls) < max
    /\ LET step == Catch(Dispatch(name, arguments))
       IN  calls' = Append(calls,
                [name |-> name, arguments |-> arguments,
                 sent |-> IF step.kind = "await"
                          THEN << step.request >> ELSE << >>,
                 settled |-> Pending,
                 step |-> step])
    /\ UNCHANGED << alive, catalogs >>

\* the remote call of invocation i settles: the handler resumes, and its
\* outcome goes through the catch block
RemoteSettle(i, settled) ==
    /\ alive
    /\ i \in 1..Len(calls)
    /\ calls[i].step.kind = "await"
    /\ calls' = [calls EXCEPT
                    ![i].settled = settled,
                    ![i].step = Catch(Resume(AwaitResult(i, settled)))]
    /\ UNCHANGED << alive, catalogs >>

\* SIGINT: the server is closed and the process exits
Sigint ==
    /\ alive
    /\ alive' = FALSE
    /\ UNCHANGED << calls, catalogs >>

Next ==
    \/ ListTools
    \/ \E name \in Names : \E arguments \in ArgsFor(name) :
            CallTool(name, arguments, MaxCalls)
    \/ \E i \in 1..Len(calls) : \E settled \in Settlements :
            RemoteSettle(i, settled)
    \/ Sigint

Spec == Init /\ [][Next]_vars

NextConc ==
    \/ ListTools
    \/ \E name \in ConcNames : \E arguments \in ConcArgsFor(name) :
            CallTool(name, arguments, MaxInFlight)
    \/ \E i \in 1..Len(calls) : \E settled \in ConcSettlements :
            RemoteSettle(i, settled)
    \/ Sigint

SpecConc == Init /\ [][NextConc]_vars

(* ---------------------------------------------------------------------- *)
(* Vocabulary of the properties                                           *)
(* ---------------------------------------------------------------------- *)
Ids == 1..Len(calls)

IsFault(step) == step.kind = "throw"

IsEnvelope(step) == step.kind = "return"

\* an envelope whose isError is true
IsErrorEnvelope(step) ==
    /\ IsEnvelope(step)
    /\ "isError" \in DOMAIN step.value
    /\ step.value.isError = TRUE

\* an envelope whose isError is absent or false
IsSuccessEnvelope(step) ==
    /\ IsEnvelope(step)
    /\ ("isError" \in DOMAIN step.value => step.value.isError = FALSE)

\* the envelope's content is exactly one text item
OneText(step) ==
    /\ Len(step.value.content) = 1
    /\ step.value.content[1].type = "text"

TextOf(step) == step.value.content[1].text

EndsWith(s, suffix) ==
    /\ Len(s) >= Len(suffix)
    /\ SubSeq(s, Len(s) - Len(suffix) + 1, Len(s)) = suffix

\* the tools whose schema declares required fields: their handlers read
\* a field of the arguments
ReadsArguments ==
    {Tools[k].name : k \in {j \in DOMAIN Tools :
                                "required" \in DOMAIN Tools[j].inputSchema}}

\* the remote call of c was rejected, and the error carries a response
\* whose body has a non-empty string in its message field
HasBodyMessage(c) ==
    /\ c.settled.kind = "rejected"
    /\ LET m == OptGet(OptGet(c.settled.reason.response, "data"), "message")
       IN  m.t = "string" /\ m.s # ""

\* the remote call of c was rejected, with no response, or with a body
\* that has no message field or an empty one
HasNoBodyMessage(c) ==
    /\ c.settled.kind = "rejected"
    /\ LET m == OptGet(OptGet(c.settled.reason.response, "data"), "message")
       IN  m.t = "undefined" \/ (m.t = "string" /\ m.s = "")

BodyMessage(c) == Get(Get(c.settled.reason.response, "data"), "message").s

ZoneBodyText == "{\n  \"id\": \"z1\",\n  \"name\": \"example.com\"\n}"

(* ---------------------------------------------------------------------- *)
(* C1: unknown names                                                      *)
(* ---------------------------------------------------------------------- *)
\* C1: an invocation whose name is not in the catalog ends, whatever its
\* arguments, in a MethodNotFound fault whose message carries the name; it
\* is no envelope, and no remote request was issued for it.
C1_UnknownTool ==
    \A i \in Ids :
        calls[i].name \notin CatalogNames =>
            /\ IsFault(calls[i].step)
            /\ calls[i].step.error.name = "McpError"
            /\ calls[i].step.error.code = "MethodNotFound"
            /\ EndsWith(calls[i].step.error.message, calls[i].name)
            /\ calls[i].sent = << >>

C1_Witness ==
    \E i \in Ids :
        /\ calls[i].name = "getDnsZone"
        /\ calls[i].arguments = ZoneArgs
        /\ IsFault(calls[i].step)

(* ---------------------------------------------------------------------- *)
(* C2: the message of the remote error body                               *)
(* ---------------------------------------------------------------------- *)
\* C2 as stated: when the remote call of a catalog tool fails with an error
\* body that has a message, the result is an isError envelope whose single
\* text equals that message, unaltered.
C2_Original ==
    \A i \in Ids :
        (calls[i].name \in CatalogNames /\ HasBodyMessage(calls[i])) =>
            /\ IsErrorEnvelope(calls[i].step)
            /\ OneText(calls[i].step)
            /\ TextOf(calls[i].step) = BodyMessage(calls[i])

\* C2 amended: in that case the result is an isError envelope whose single
\* text is "IONOS API error: " followed by the body's message, unaltered.
C2_PrefixedMessage ==
    \A i \in Ids :
        (calls[i].name \in CatalogNames /\ HasBodyMessage(calls[i])) =>
            /\ IsErrorEnvelope(calls[i].step)
            /\ OneText(calls[i].step)
            /\ TextOf(calls[i].step)
                   = "IONOS API error: " \o BodyMessage(calls[i])

C2_Witness ==
    \E i \in Ids :
        /\ calls[i].name = "get_dns_zone"
        /\ calls[i].settled = NotFound
        /\ IsErrorEnvelope(calls[i].step)
        /\ TextOf(calls[i].step) = "IONOS API error: Zone not found"

(* ---------------------------------------------------------------------- *)
(* C3: remote failures without a message                                  *)
(* ---------------------------------------------------------------------- *)
\* C3: when the remote call of a catalog tool fails with no response, or
\* with a body whose message is missing or empty (a rate-limit rejection
\* included), the result is an isError envelope, not a fault; its single
\* text is derived from the raised error (it ends with the error's own
\* message) and is not the empty string.
C3_GenericFallback ==
    \A i \in Ids :
        (calls[i].name \in CatalogNames /\ HasNoBodyMessage(calls[i])) =>
            /\ IsErrorEnvelope(calls[i].step)
            /\ OneText(calls[i].step)
            /\ TextOf(calls[i].step) # ""
            /\ EndsWith(TextOf(calls[i].step), calls[i].settled.reason.message)

C3_Witness ==
    \E i \in Ids :
        /\ calls[i].name \in CatalogNames
        /\ calls[i].settled = RateLimited
        /\ IsErrorEnvelope(calls[i].step)
        /\ TextOf(calls[i].step)
               = "IONOS API error: Request failed with status code 429"

(* ---------------------------------------------------------------------- *)
(* C4: failures that are no transport errors                              *)
(* ---------------------------------------------------------------------- *)
\* an envelope with isError true comes from a rejected remote call only
OnlyTransportAbsorbed ==
    \A i \in Ids :
        IsErrorEnvelope(calls[i].step) =>
            /\ calls[i].settled.kind = "rejected"
            /\ calls[i].settled.reason.name = "AxiosError"

\* a tool that reads its arguments, invoked without any, faults with the
\* TypeError of the read
MissingArgumentsFault ==
    \A i \in Ids :
        (calls[i].name \in ReadsArguments /\ Nullish(calls[i].arguments)) =>
            /\ IsFault(calls[i].step)
            /\ calls[i].step.error.name = "TypeError"

\* what the outcome of c is when it is served normally
ServedNormally(c) ==
    /\ c.settled = Fulfilled(200, ZoneBody) =>
            /\ IsSuccessEnvelope(c.step)
            /\ OneText(c.step)
            /\ TextOf(c.step) = ZoneBodyText
    /\ c.settled.kind = "rejected" => IsErrorEnvelope(c.step)
    /\ (c.settled.kind = "pending" /\ c.name \in CatalogNames
            /\ ~(c.name \in ReadsArguments /\ Nullish(c.arguments))) =>
            c.step.kind = "await"

\* requests that arrive after a fault are served normally
ServedAfterFault ==
    /\ \A i \in Ids : \A j \in Ids :
            (i < j /\ IsFault(calls[i].step)) => ServedNormally(calls[j])
    /\ \A k \in DOMAIN catalogs :
            catalogs[k].afterFault =>
                /\ Len(catalogs[k].result.tools) = 9
                /\ {catalogs[k].result.tools[n].name :
                        n \in DOMAIN catalogs[k].result.tools}
                       = Range(CaseLabels)

\* a step in which an invocation faults changes that invocation only: the
\* process stays alive, the other invocations and the catalogs are untouched
FaultIsLocal ==
    \A i \in 1..Len(calls') :
        (IsFault(calls'[i].step)
            /\ (i \in Ids => ~IsFault(calls[i].step))) =>
            /\ alive' = alive
            /\ alive'
            /\ catalogs' = catalogs
            /\ \A j \in Ids : j # i => calls'[j] = calls[j]

\* C4: a failure in a handler that is no transport error (a tool that reads
\* an id from its arguments, invoked without arguments) is not absorbed into
\* an isError envelope but propagated as a fault of that request alone; the
\* process stays alive and later requests are served normally.
C4_FaultPropagates ==
    /\ [](OnlyTransportAbsorbed /\ MissingArgumentsFault /\ ServedAfterFault)
    /\ [][FaultIsLocal]_vars

C4_Witness ==
    /\ alive
    /\ Len(calls) >= 2
    /\ calls[1].name = "get_dns_zone"
    /\ calls[1].arguments = Undefined
    /\ IsFault(calls[1].step)
    /\ calls[1].step.error.name = "TypeError"
    /\ IsSuccessEnvelope(calls[2].step)
    /\ \E k \in DOMAIN catalogs : catalogs[k].afterFault

(* ---------------------------------------------------------------------- *)
(* C5: outbound requests per invocation                                   *)
(* ---------------------------------------------------------------------- *)
\* C5 as stated: every invocation of a catalog tool issues exactly one
\* outbound request, whatever its arguments and its outcome.
C5_Original ==
    \A i \in Ids :
        calls[i].name \in CatalogNames => Len(calls[i].sent) = 1

\* an invocation of a catalog tool issues one request, except that a tool
\* that reads its arguments, invoked with none, faults before issuing any
OneRequestUnlessNoArguments ==
    \A i \in Ids :
        calls[i].name \in CatalogNames =>
            /\ Len(calls[i].sent) <= 1
            /\ Len(calls[i].sent) = 0 <=>
                   (calls[i].name \in ReadsArguments
                        /\ Nullish(calls[i].arguments))
            /\ Len(calls[i].sent) = 0 =>
                   (IsFault(calls[i].step)
                        /\ calls[i].step.error.name = "TypeError")

\* the requests of an invocation are issued when it is received: none is
\* issued later, whatever the remote call settles with
NoRetry ==
    \A i \in Ids : calls'[i].sent = calls[i].sent

\* C5 amended: every invocation of a catalog tool issues at most one
\* outbound request and never retries; it issues exactly one unless the tool
\* reads a field of its arguments and is invoked with no arguments value, in
\* which case it faults with a TypeError before any request is issued.
C5_AtMostOneRequest ==
    /\ []OneRequestUnlessNoArguments
    /\ [][NoRetry]_vars

C5_Witness ==
    \E i \in Ids :
        /\ calls[i].name = "delete_certificate"
        /\ calls[i].settled = NetworkError
        /\ IsErrorEnvelope(calls[i].step)
        /\ Len(calls[i].sent) = 1

(* ---------------------------------------------------------------------- *)
(* C6: the success envelope                                               *)
(* ---------------------------------------------------------------------- *)
\* C6: when the remote call of a catalog tool succeeds, the result is an
\* envelope whose isError is absent or false and whose content is exactly
\* one text item, the pretty-printed JSON of the response body: for the body
\* {id: z1, name: example.com} the text is that object on four lines,
\* indented by two spaces, and for an empty body it is the two quotes.
C6_PassThrough ==
    \A i \in Ids :
        (calls[i].name \in CatalogNames /\ calls[i].settled.kind = "fulfilled")
        =>  /\ IsSuccessEnvelope(calls[i].step)
            /\ OneText(calls[i].step)
            /\ TextOf(calls[i].step)
                   = JSONstringify(calls[i].settled.value.data)
            /\ calls[i].settled.value.data = ZoneBody =>
                   TextOf(calls[i].step) = ZoneBodyText
            /\ calls[i].settled.value.data = Str("") =>
                   TextOf(calls[i].step) = "\"\""

C6_Witness ==
    \E i \in Ids :
        /\ calls[i].name = "get_dns_zone"
        /\ calls[i].arguments = ZoneArgs
        /\ calls[i].settled = Fulfilled(200, ZoneBody)
        /\ TextOf(calls[i].step) = ZoneBodyText

(* ---------------------------------------------------------------------- *)
(* C7: the default of subjectAlternativeNames                             *)
(* ---------------------------------------------------------------------- *)
\* C7: create_certificate invoked with an arguments object issues a POST to
\* /v1/certificates of the SSL client whose body carries the given
\* domainName; its subjectAlternativeNames is the empty list when the field
\* is omitted, and the supplied list, unchanged, when a non-empty list is
\* supplied.
C7_DefaultSans ==
    \A i \in Ids :
        (calls[i].name = "create_certificate" /\ ~Nullish(calls[i].arguments))
        =>  /\ Len(calls[i].sent) = 1
            /\ calls[i].sent[1].method = "POST"
            /\ calls[i].sent[1].url = "/v1/certificates"
            /\ calls[i].sent[1].baseURL = "https://api.hosting.ionos.com/ssl"
            /\ Get(calls[i].sent[1].body, "domainName")
                   = Get(calls[i].arguments, "domainName")
            /\ LET given == Get(calls[i].arguments, "subjectAlternativeNames")
                   sans == Get(calls[i].sent[1].body, "subjectAlternativeNames")
               IN  /\ ~HasOwn(calls[i].arguments, "subjectAlternativeNames")
                        => sans = Arr(<< >>)
                   /\ (given.t = "array" /\ Len(given.a) > 0) => sans = given

C7_Witness ==
    \E i \in Ids :
        /\ calls[i].name = "create_certificate"
        /\ calls[i].arguments = Obj(<< <<"domainName", Str("example.com")>> >>)
        /\ Len(calls[i].sent) = 1
        /\ calls[i].sent[1].body
               = Obj(<< <<"domainName", Str("example.com")>>,
                        <<"subjectAlternativeNames", Arr(<< >>)>> >>)

(* ---------------------------------------------------------------------- *)
(* C8: the catalog and the dispatcher agree                               *)
(* ---------------------------------------------------------------------- *)
\* the switch has a case for name: it does not end in the default branch
Executes(name) ==
    Dispatch(name, Obj(<< >>))
        # Throw(McpError("MethodNotFound", "Unknown tool: " \o name))

\* the number of descriptors of tools that carry name
Descriptors(tools, name) ==
    Cardinality({k \in DOMAIN tools : tools[k].name = name})

\* C8: the names the dispatcher executes are the names of the catalog, each
\* of which occurs in the catalog once: a name the dispatcher executes has
\* exactly one descriptor, a name it does not execute has none, in every
\* catalog returned, and an invocation ends in MethodNotFound exactly when
\* its name has no descriptor.
C8_CatalogComplete ==
    /\ \A name \in Names :
            Descriptors(Tools, name) = IF Executes(name) THEN 1 ELSE 0
    /\ \A k \in DOMAIN catalogs : \A name \in Names :
            Descriptors(catalogs[k].result.tools, name)
                = IF Executes(name) THEN 1 ELSE 0
    /\ \A i \in Ids :
            (IsFault(calls[i].step)
                /\ calls[i].step.error.code = "MethodNotFound")
            <=> Descriptors(Tools, calls[i].name) = 0

C8_Witness ==
    /\ Len(catalogs) >= 1
    /\ {catalogs[1].result.tools[k].name :
            k \in DOMAIN catalogs[1].result.tools} = Range(CaseLabels)
    /\ \E i \in Ids :
        /\ calls[i].name = "delete_certificate"
        /\ IsEnvelope(calls[i].step)

(* ---------------------------------------------------------------------- *)
(* C9: discovery is stable                                                *)
(* ---------------------------------------------------------------------- *)
\* C9: any two discovery responses are the same catalog, with the same
\* descriptors in the same order, whatever invocations (successful, failed
\* remotely or faulted) were made before or between them.
C9_StableCatalog ==
    \A k \in DOMAIN catalogs : \A l \in DOMAIN catalogs :
        catalogs[k].result = catalogs[l].result

C9_Witness ==
    /\ Len(catalogs) >= 2
    /\ ~catalogs[1].afterFault
    /\ catalogs[2].afterFault
    /\ \E i \in Ids : IsErrorEnvelope(calls[i].step)

(* ---------------------------------------------------------------------- *)
(* C10: invocations in flight together                                    *)
(* ---------------------------------------------------------------------- *)
\* the outcome of c, from its own name, arguments and settlement
OwnOutcome(c) ==
    /\ c.settled = Fulfilled(200, ZoneBody) =>
            /\ IsSuccessEnvelope(c.step)
            /\ TextOf(c.step) = ZoneBodyText
    /\ c.settled = NotFound =>
            /\ IsErrorEnvelope(c.step)
            /\ TextOf(c.step) = "IONOS API error: Zone not found"
    /\ c.settled = NetworkError =>
            /\ IsErrorEnvelope(c.step)
            /\ TextOf(c.step) = "IONOS API error: Network Error"
    /\ c.settled.kind = "pending" => ~IsEnvelope(c.step)
    /\ (c.name = "get_dns_zone" /\ c.arguments = ZoneArgs) =>
            c.sent = << Request(dnsApiClient, "GET", "/v1/zones/z1",
                                Undefined) >>
    /\ c.name = "list_domains" =>
            c.sent = << Request(domainsApiClient, "GET", "/v1/domainitems",
                                Undefined) >>
    /\ c.name \notin CatalogNames => IsFault(c.step)

\* invocations with the same name, arguments and settlement have the same
\* outcome, whatever else is in flight
SameInputsSameOutcome ==
    \A i \in Ids : \A j \in Ids :
        (/\ calls[i].name = calls[j].name
         /\ calls[i].arguments = calls[j].arguments
         /\ calls[i].settled = calls[j].settled)
        => calls[i].step = calls[j].step /\ calls[i].sent = calls[j].sent

\* a step changes at most one invocation, and leaves the name and the
\* arguments of every invocation as they are
OneAtATime ==
    /\ \A i \in Ids : \A j \in Ids :
            (i # j /\ calls'[i] # calls[i]) => calls'[j] = calls[j]
    /\ \A i \in Ids :
            /\ calls'[i].name = calls[i].name
            /\ calls'[i].arguments = calls[i].arguments
            /\ calls[i].step.kind # "await" => calls'[i] = calls[i]

\* C10: with several invocations awaiting their remote responses, which
\* arrive in any order, the result of each is built from its own name and
\* arguments and its own response or error: the outcome of one (a remote
\* failure or a fault included) does not appear in, change or suppress the
\* result of another.
C10_Isolation ==
    /\ []((\A i \in Ids : OwnOutcome(calls[i])) /\ SameInputsSameOutcome)
    /\ [][OneAtATime]_vars

\* the second invocation's response arrived first, and failed, while the
\* first is still awaiting
C10_Witness ==
    /\ Len(calls) >= 2
    /\ calls[1].step.kind = "await"
    /\ calls[2].name \in CatalogNames
    /\ calls[2].settled = NotFound
    /\ IsErrorEnvelope(calls[2].step)

====
